---- MODULE Spec2Model ----
(***************************************************************************)
(* The certdb record store of cfssl (package certdb): the certificates and *)
(* ocsp_responses relations and the operations over them; the CRL          *)
(* assembler (package crl) and the gencrl command (package cli/gencrl).    *)
(*                                                                         *)
(* A relation is a bag of rows (SQL gives a table no order).  A time is an *)
(* instant in whole seconds plus a location; instant 0 is Go's zero        *)
(* time.Time.  The database clock CURRENT_TIMESTAMP is the variable now.   *)
(***************************************************************************)
EXTENDS Naturals, Integers, FiniteSets, Sequences, Bags

VARIABLES
    certs,      \* the certificates relation
    ocsp,       \* the ocsp_responses relation
    now,        \* the database server's clock, in seconds
    last,       \* the call that returned last: [op, arg, err, out]
    pc,         \* per concurrent UpsertOCSP caller: "idle", or "insert"
                \* between its UPDATE statement and its fallback InsertOCSP
    args,       \* per concurrent UpsertOCSP caller: the arguments of its call
    ocspKey,    \* whether the engine enforces a key on ocsp_responses.serial
    call,       \* the CRL generation under way: [pc, in, dbRevoked]
    driver,     \* what the engine and its driver report for an INSERT
    ret         \* per concurrent UpsertOCSP caller: what its watched call
                \* returned

vars == <<certs, ocsp, now, last, pc, args, ocspKey, call, driver, ret>>

----------------------------------------------------------------------------
(* Bounds of the model. *)

\* The database clock runs over 1..MaxTime.
MaxTime == 3
\* An engine without a key on ocsp_responses.serial holds at most MaxRows
\* OCSP rows.
MaxRows == 3
\* A serial list file holds at most MaxLen bytes.
MaxLen == 4

----------------------------------------------------------------------------
(* Values. *)

Serials == {"1", "2"}
CALabels == {"default"}
PEMs == {"fake cert data"}
Statuses == {"good", "revoked", ""}
Procs == {1, 2}

Time(t, loc) == [t |-> t, loc |-> loc]
\* The zero time.Time (a CertificateRecord built without RevokedAt).
ZeroTime == Time(0, "UTC")
\* time.Time.IsZero
IsZero(x) == x.t = 0
\* time.Time.UTC: the same instant, in location UTC.
UTC(x) == Time(x.t, "UTC")
\* SQL CURRENT_TIMESTAMP at clock reading ts.
CURRENT_TIMESTAMP(ts) == Time(ts, "UTC")

\* The error values a store call returns.
nil == "nil"
Unknown == "CertStoreError/Unknown"
InsertionFailed == "CertStoreError/InsertionFailed"
RecordNotFound == "CertStoreError/RecordNotFound"

\* func wrapCertStoreError: a driver error becomes CertStoreError/Unknown.
wrapCertStoreError(err) == IF err # nil THEN Unknown ELSE nil

NoRecord == [Serial |-> "<nil>"]

----------------------------------------------------------------------------
(* Relations as bags of rows. *)

RECURSIVE SumOver(_, _)
SumOver(S, f) ==
    IF S = {} THEN 0
    ELSE LET x == CHOOSE y \in S : TRUE
         IN f[x] + SumOver(S \ {x}, f)

\* The rows of rel with the given serial: WHERE (serial = :serial).
WhereSerial(rel, serial) ==
    [r \in {x \in BagToSet(rel) : x.Serial = serial} |-> rel[r]]

\* How many rows of rel have the given serial.
Count(rel, serial) == BagCardinality(WhereSerial(rel, serial))

\* rel with every row r replaced by f[r].
MapRows(rel, f) ==
    LET src == BagToSet(rel)
        img == {f[x] : x \in src}
    IN [y \in img |-> SumOver({x \in src : f[x] = y}, rel)]

\* PRIMARY KEY (serial) of the certificates table, from the schema the
\* migrations create.
CertificatesPrimaryKey == TRUE

----------------------------------------------------------------------------
(* The certificates relation. *)

\* The records a caller passes to InsertCertificate.
CertificateRecords ==
    [Serial : Serials, CALabel : CALabels, Status : Statuses, Reason : {0},
     Expiry : {Time(1, "Local"), Time(MaxTime, "UTC")},
     RevokedAt : {ZeroTime, Time(1, "Local")}, PEM : PEMs]

\* The reason codes a caller passes to RevokeCertificate
\* (0 unspecified, 2 CACompromise).
ReasonCodes == {0, 2}

\* insertSQL written as INSERT OR REPLACE: a stored serial's row is replaced.
insertSQLOrReplace(rel, row) ==
    LET others == [r \in {x \in BagToSet(rel) : x.Serial # row.Serial} |-> rel[r]]
    IN [rel |-> others (+) SetToBag({row}), n |-> 1, err |-> nil, rowsErr |-> nil]

\* What Exec and Result.RowsAffected give for an INSERT of one row that
\* violates no key, under each driver: the relation, the count n and the
\* errors err (of Exec) and rowsErr (of RowsAffected).
Inserted(rel, row) ==
    CASE driver = "exact" ->
             [rel |-> rel (+) SetToBag({row}), n |-> 1, err |-> nil, rowsErr |-> nil]
      [] driver = "no-op" ->
             [rel |-> rel, n |-> 0, err |-> nil, rowsErr |-> nil]
      [] driver = "two rows" ->
             [rel |-> rel (+) SetToBag({row}), n |-> 2, err |-> nil, rowsErr |-> nil]
      [] driver = "no count" ->
             [rel |-> rel (+) SetToBag({row}), n |-> 0, err |-> nil,
              rowsErr |-> "driver: no RowsAffected available"]

\* INSERT INTO certificates ... VALUES (...): one row more, or the driver's
\* error when the primary key already holds the serial.
insertSQL(rel, row) ==
    IF CertificatesPrimaryKey /\ Count(rel, row.Serial) > 0
    THEN [rel |-> rel, n |-> 0, err |-> "driver: duplicate key", rowsErr |-> nil]
    ELSE Inserted(rel, row)

\* SELECT ... FROM certificates WHERE (serial = ?): the rows sqlx.Get may
\* scan (it takes the first row the engine yields).
selectSQL(rel, serial) == {r \in BagToSet(rel) : r.Serial = serial}

\* selectAllUnexpiredSQL with <= for <.
selectAllUnexpiredSQLInclusive(rel, ts) ==
    [r \in {x \in BagToSet(rel) : CURRENT_TIMESTAMP(ts).t <= x.Expiry.t} |-> rel[r]]

\* SELECT ... FROM certificates WHERE CURRENT_TIMESTAMP < expiry
selectAllUnexpiredSQL(rel, ts) ==
    [r \in {x \in BagToSet(rel) : CURRENT_TIMESTAMP(ts).t < x.Expiry.t} |-> rel[r]]

\* updateRevokeSQL without reason=:reason.
updateRevokeSQLNoReason(rel, serial, reason, ts) ==
    LET set == [r \in BagToSet(rel) |->
                  IF r.Serial = serial
                  THEN [r EXCEPT !.Status = "revoked",
                                 !.RevokedAt = CURRENT_TIMESTAMP(ts)]
                  ELSE r]
    IN [rel |-> MapRows(rel, set), n |-> Count(rel, serial), err |-> nil]

\* updateRevokeSQL without revoked_at=CURRENT_TIMESTAMP.
updateRevokeSQLNoTimestamp(rel, serial, reason, ts) ==
    LET set == [r \in BagToSet(rel) |->
                  IF r.Serial = serial
                  THEN [r EXCEPT !.Status = "revoked", !.Reason = reason]
                  ELSE r]
    IN [rel |-> MapRows(rel, set), n |-> Count(rel, serial), err |-> nil]

\* updateRevokeSQL with status=:status, which RevokeCertificate leaves empty.
updateRevokeSQLStatusParam(rel, serial, reason, ts) ==
    LET set == [r \in BagToSet(rel) |->
                  IF r.Serial = serial
                  THEN [r EXCEPT !.Status = "",
                                 !.RevokedAt = CURRENT_TIMESTAMP(ts),
                                 !.Reason = reason]
                  ELSE r]
    IN [rel |-> MapRows(rel, set), n |-> Count(rel, serial), err |-> nil]

\* updateRevokeSQL without its WHERE clause: every row is updated.
updateRevokeSQLEveryRow(rel, serial, reason, ts) ==
    LET set == [r \in BagToSet(rel) |->
                  [r EXCEPT !.Status = "revoked",
                            !.RevokedAt = CURRENT_TIMESTAMP(ts),
                            !.Reason = reason]]
    IN [rel |-> MapRows(rel, set), n |-> BagCardinality(rel), err |-> nil]

\* updateRevokeSQL as DELETE FROM certificates WHERE (serial = :serial).
updateRevokeSQLDelete(rel, serial, reason, ts) ==
    [rel |-> [r \in {x \in BagToSet(rel) : x.Serial # serial} |-> rel[r]],
     n   |-> Count(rel, serial),
     err |-> nil]

\* updateRevokeSQL with WHERE (serial = :serial AND status != 'revoked').
updateRevokeSQLOnce(rel, serial, reason, ts) ==
    LET hit(r) == r.Serial = serial /\ r.Status # "revoked"
        set == [r \in BagToSet(rel) |->
                  IF hit(r)
                  THEN [r EXCEPT !.Status = "revoked",
                                 !.RevokedAt = CURRENT_TIMESTAMP(ts),
                                 !.Reason = reason]
                  ELSE r]
    IN [rel |-> MapRows(rel, set),
        n |-> IF \E r \in BagToSet(rel) : hit(r) THEN Count(rel, serial) ELSE 0,
        err |-> nil]

\* UPDATE certificates SET status='revoked', revoked_at=CURRENT_TIMESTAMP,
\* reason=:reason WHERE (serial = :serial)
updateRevokeSQL(rel, serial, reason, ts) ==
    LET set == [r \in BagToSet(rel) |->
                  IF r.Serial = serial
                  THEN [r EXCEPT !.Status = "revoked",
                                 !.RevokedAt = CURRENT_TIMESTAMP(ts),
                                 !.Reason = reason]
                  ELSE r]
    IN [rel |-> MapRows(rel, set), n |-> Count(rel, serial), err |-> nil]

\* InsertCertificate with Expiry and RevokedAt taken from each other.
InsertCertificateSwapped(rel, cr) ==
    LET res == insertSQL(rel, [Serial    |-> cr.Serial,
                               CALabel   |-> cr.CALabel,
                               Status    |-> cr.Status,
                               Reason    |-> cr.Reason,
                               Expiry    |-> UTC(cr.RevokedAt),
                               RevokedAt |-> UTC(cr.Expiry),
                               PEM       |-> cr.PEM])
    IN [rel |-> res.rel,
        res |-> [n |-> res.n, err |-> res.err, rowsErr |-> res.rowsErr],
        err |-> IF res.err # nil THEN wrapCertStoreError(res.err)
                ELSE IF res.n = 0 THEN InsertionFailed
                ELSE IF res.n # 1 THEN wrapCertStoreError("rows affected")
                ELSE res.rowsErr]

\* InsertCertificate that trusts the write: no test of the affected rows.
InsertCertificateUnchecked(rel, cr) ==
    LET res == insertSQL(rel, [Serial    |-> cr.Serial,
                               CALabel   |-> cr.CALabel,
                               Status    |-> cr.Status,
                               Reason    |-> cr.Reason,
                               Expiry    |-> UTC(cr.Expiry),
                               RevokedAt |-> UTC(cr.RevokedAt),
                               PEM       |-> cr.PEM])
    IN [rel |-> res.rel,
        res |-> [n |-> res.n, err |-> res.err, rowsErr |-> res.rowsErr],
        err |-> IF res.err # nil THEN wrapCertStoreError(res.err)
                ELSE res.rowsErr]

\* func InsertCertificate: the relation after the call, what the write
\* reported (res) and the error returned.
InsertCertificate(rel, cr) ==
    LET res == insertSQL(rel, [Serial    |-> cr.Serial,
                               CALabel   |-> cr.CALabel,
                               Status    |-> cr.Status,
                               Reason    |-> cr.Reason,
                               Expiry    |-> UTC(cr.Expiry),
                               RevokedAt |-> UTC(cr.RevokedAt),
                               PEM       |-> cr.PEM])
    IN [rel |-> res.rel,
        res |-> [n |-> res.n, err |-> res.err, rowsErr |-> res.rowsErr],
        err |-> IF res.err # nil THEN wrapCertStoreError(res.err)
                ELSE IF res.n = 0 THEN InsertionFailed
                ELSE IF res.n # 1 THEN wrapCertStoreError("rows affected")
                ELSE res.rowsErr]

\* func GetCertificate: the (record, error) pairs the call may return.
GetCertificate(rel, serial) ==
    IF selectSQL(rel, serial) = {}
    THEN {[cr |-> NoRecord, err |-> wrapCertStoreError("sql: no rows")]}
    ELSE {[cr |-> r, err |-> nil] : r \in selectSQL(rel, serial)}

\* func GetUnexpiredCertificates: the records returned (in no order).
GetUnexpiredCertificates(rel, ts) ==
    [crs |-> selectAllUnexpiredSQL(rel, ts), err |-> nil]

\* RevokeCertificate without the check for zero affected rows.
RevokeCertificateUnchecked(rel, serial, reasonCode, ts) ==
    LET res == updateRevokeSQL(rel, serial, reasonCode, ts)
    IN [rel |-> res.rel,
        err |-> IF res.err # nil THEN wrapCertStoreError(res.err)
                ELSE IF res.n > 1 THEN wrapCertStoreError("rows affected")
                ELSE nil]

\* func RevokeCertificate: the relation after the call and the error returned.
RevokeCertificate(rel, serial, reasonCode, ts) ==
    LET res == updateRevokeSQL(rel, serial, reasonCode, ts)
    IN [rel |-> res.rel,
        err |-> IF res.err # nil THEN wrapCertStoreError(res.err)
                ELSE IF res.n = 0 THEN RecordNotFound
                ELSE IF res.n # 1 THEN wrapCertStoreError("rows affected")
                ELSE nil]

Returned(op, arg, err, out) == [op |-> op, arg |-> arg, err |-> err, out |-> out]

InsertCertificateCall(cr) ==
    LET res == InsertCertificate(certs, cr)
    IN /\ certs' = res.rel
       /\ last' = Returned("InsertCertificate", cr, res.err, res.res)
       /\ UNCHANGED <<ocsp, now, pc, args, ocspKey, call, driver, ret>>

GetCertificateCall(serial) ==
    \E got \in GetCertificate(certs, serial) :
        /\ last' = Returned("GetCertificate", serial, got.err, got.cr)
        /\ UNCHANGED <<certs, ocsp, now, pc, args, ocspKey, call, driver, ret>>

GetUnexpiredCertificatesCall ==
    LET got == GetUnexpiredCertificates(certs, now)
    IN /\ last' = Returned("GetUnexpiredCertificates", "", got.err, got.crs)
       /\ UNCHANGED <<certs, ocsp, now, pc, args, ocspKey, call, driver, ret>>

\* RevokeCertificate that also drops the cached OCSP responses of the serial.
RevokeCertificateCallInvalidating(serial, reasonCode) ==
    LET res == RevokeCertificate(certs, serial, reasonCode, now)
    IN /\ certs' = res.rel
       /\ ocsp' = [r \in {x \in BagToSet(ocsp) : x.Serial # serial} |-> ocsp[r]]
       /\ last' = Returned("RevokeCertificate",
                           [Serial |-> serial, Reason |-> reasonCode], res.err, "")
       /\ UNCHANGED <<now, pc, args, ocspKey, call, driver, ret>>

RevokeCertificateCall(serial, reasonCode) ==
    LET res == RevokeCertificate(certs, serial, reasonCode, now)
    IN /\ certs' = res.rel
       /\ last' = Returned("RevokeCertificate",
                           [Serial |-> serial, Reason |-> reasonCode], res.err, "")
       /\ UNCHANGED <<ocsp, now, pc, args, ocspKey, call, driver, ret>>

\* The database clock advances.
Tick ==
    /\ now < MaxTime
    /\ now' = now + 1
    /\ last' = Returned("Tick", "", nil, "")
    /\ UNCHANGED <<certs, ocsp, pc, args, ocspKey, call, driver, ret>>

NoArgs == [Serial |-> "<none>"]

\* No watched call of the caller has returned.
NoReturn == [err |-> "<none>"]

\* No CRL generation is under way.
NoCall == [pc |-> "idle"]

\* A database whose cached OCSP responses are empty or hold one response.
InitOCSP ==
    {EmptyBag,
     SetToBag({[Serial |-> "1", Body |-> "fake body", Expiry |-> Time(MaxTime, "UTC")]})}

\* The migrated, empty certificates table.
Init ==
    /\ certs = EmptyBag
    /\ ocsp \in InitOCSP
    /\ now = 1
    /\ last = Returned("open", "", nil, "")
    /\ pc = [p \in Procs |-> "idle"]
    /\ args = [p \in Procs |-> NoArgs]
    /\ ocspKey = TRUE
    /\ call = NoCall
    /\ driver = "exact"
    /\ ret = [p \in Procs |-> NoReturn]

Next ==
    \/ \E cr \in CertificateRecords : InsertCertificateCall(cr)
    \/ \E serial \in Serials : GetCertificateCall(serial)
    \/ GetUnexpiredCertificatesCall
    \/ \E serial \in Serials, reasonCode \in ReasonCodes :
           RevokeCertificateCall(serial, reasonCode)
    \/ Tick

\* The certificate operations of the record store, called in any order.
Spec == Init /\ [][Next]_vars

----------------------------------------------------------------------------
(* The ocsp_responses relation. *)

\* The (body, expiry) pairs a caller writes: a response and its successor.
OCSPResponses ==
    {[Body |-> "fake body", Expiry |-> Time(1, "UTC")],
     [Body |-> "fake body revoked", Expiry |-> Time(MaxTime, "Local")]}

\* The records a caller passes to InsertOCSP.
OCSPRecords ==
    {[Serial |-> serial, Body |-> resp.Body, Expiry |-> resp.Expiry] :
        serial \in Serials, resp \in OCSPResponses}

\* insertOCSPSQL written as INSERT ... ON CONFLICT (serial) DO UPDATE.
insertOCSPSQLOnConflict(rel, row, key) ==
    IF key /\ Count(rel, row.Serial) > 0
    THEN [rel |-> MapRows(rel, [r \in BagToSet(rel) |->
                                   IF r.Serial = row.Serial THEN row ELSE r]),
          n |-> 1, err |-> nil, rowsErr |-> nil]
    ELSE [rel |-> rel (+) SetToBag({row}), n |-> 1, err |-> nil, rowsErr |-> nil]

\* insertOCSPSQL on a table whose key the engine does not enforce.
insertOCSPSQLUnkeyed(rel, row, key) ==
    [rel |-> rel (+) SetToBag({row}), n |-> 1, err |-> nil, rowsErr |-> nil]

\* INSERT INTO ocsp_responses ... VALUES (...): one row more, or the driver's
\* error when the engine keeps serial a key and already holds it.
insertOCSPSQL(rel, row, key) ==
    IF key /\ Count(rel, row.Serial) > 0
    THEN [rel |-> rel, n |-> 0, err |-> "driver: duplicate key", rowsErr |-> nil]
    ELSE Inserted(rel, row)

\* UPDATE ocsp_responses SET expiry=:expiry, body=:body WHERE (serial = :serial)
updateOCSPSQL(rel, serial, body, expiry) ==
    LET set == [r \in BagToSet(rel) |->
                  IF r.Serial = serial
                  THEN [r EXCEPT !.Expiry = expiry, !.Body = body]
                  ELSE r]
    IN [rel |-> MapRows(rel, set), n |-> Count(rel, serial), err |-> nil]

\* SELECT ... FROM ocsp_responses WHERE CURRENT_TIMESTAMP < expiry
selectAllUnexpiredOCSPSQL(rel, ts) ==
    [r \in {x \in BagToSet(rel) : CURRENT_TIMESTAMP(ts).t < x.Expiry.t} |-> rel[r]]

\* SELECT ... FROM ocsp_responses WHERE (serial = ?)
selectOCSPSQL(rel, serial) == {r \in BagToSet(rel) : r.Serial = serial}

\* func InsertOCSP: the relation after the call, what the write reported
\* (res) and the error returned.
InsertOCSP(rel, rr, key) ==
    LET res == insertOCSPSQL(rel, [Serial |-> rr.Serial,
                                   Body   |-> rr.Body,
                                   Expiry |-> UTC(rr.Expiry)], key)
    IN [rel |-> res.rel,
        res |-> [n |-> res.n, err |-> res.err, rowsErr |-> res.rowsErr],
        err |-> IF res.err # nil THEN wrapCertStoreError(res.err)
                ELSE IF res.n = 0 THEN InsertionFailed
                ELSE IF res.n # 1 THEN wrapCertStoreError("rows affected")
                ELSE res.rowsErr]

\* func GetOCSP: the (record, error) pairs the call may return.
GetOCSP(rel, serial) ==
    IF selectOCSPSQL(rel, serial) = {}
    THEN {[rr |-> NoRecord, err |-> wrapCertStoreError("sql: no rows")]}
    ELSE {[rr |-> r, err |-> nil] : r \in selectOCSPSQL(rel, serial)}

\* func GetUnexpiredOCSPs: the records returned (in no order).
GetUnexpiredOCSPs(rel, ts) ==
    [rrs |-> selectAllUnexpiredOCSPSQL(rel, ts), err |-> nil]

\* UpdateOCSP with UpsertOCSP's fallback: a missing serial is inserted.
UpdateOCSPInserting(rel, serial, body, expiry) ==
    LET res == updateOCSPSQL(rel, serial, body, UTC(expiry))
    IN IF res.n = 0
       THEN [rel |-> rel (+) SetToBag({[Serial |-> serial, Body |-> body,
                                        Expiry |-> UTC(expiry)]}),
             err |-> nil]
       ELSE [rel |-> res.rel,
             err |-> IF res.n # 1 THEN wrapCertStoreError("rows affected") ELSE nil]

\* func UpdateOCSP: the relation after the call and the error returned.
UpdateOCSP(rel, serial, body, expiry) ==
    LET res == updateOCSPSQL(rel, serial, body, UTC(expiry))
    IN [rel |-> res.rel,
        err |-> IF res.err # nil THEN wrapCertStoreError(res.err)
                ELSE IF res.n = 0 THEN RecordNotFound
                ELSE IF res.n # 1 THEN wrapCertStoreError("rows affected")
                ELSE nil]

\* UpsertOCSP with UpdateOCSP's answer to zero affected rows.
UpsertOCSPNoFallback(rel, serial, body, expiry) ==
    LET res == updateOCSPSQL(rel, serial, body, UTC(expiry))
    IN [rel  |-> res.rel,
        then |-> "return",
        err  |-> IF res.n = 0 THEN RecordNotFound
                 ELSE IF res.n # 1 THEN wrapCertStoreError("rows affected")
                 ELSE nil]

\* func UpsertOCSP, up to its decision on the UPDATE's affected rows: the
\* relation after the UPDATE, whether the call goes on to InsertOCSP, and the
\* error it returns when it does not.
UpsertOCSP(rel, serial, body, expiry) ==
    LET res == updateOCSPSQL(rel, serial, body, UTC(expiry))
    IN [rel  |-> res.rel,
        then |-> IF res.err = nil /\ res.n = 0 THEN "InsertOCSP" ELSE "return",
        err  |-> IF res.err # nil THEN wrapCertStoreError(res.err)
                 ELSE IF res.n = 0 THEN nil
                 ELSE IF res.n # 1 THEN wrapCertStoreError("rows affected")
                 ELSE nil]

\* An engine without the key is held to MaxRows rows.
RoomFor(rel, key) == key \/ BagCardinality(rel) < MaxRows

InsertOCSPCall(rr) ==
    LET res == InsertOCSP(ocsp, rr, ocspKey)
    IN /\ RoomFor(ocsp, ocspKey)
       /\ ocsp' = res.rel
       /\ last' = Returned("InsertOCSP", rr, res.err, res.res)
       /\ UNCHANGED <<certs, now, pc, args, ocspKey, call, driver, ret>>

GetOCSPCall(serial) ==
    \E got \in GetOCSP(ocsp, serial) :
        /\ last' = Returned("GetOCSP", serial, got.err, got.rr)
        /\ UNCHANGED <<certs, ocsp, now, pc, args, ocspKey, call, driver, ret>>

GetUnexpiredOCSPsCall ==
    LET got == GetUnexpiredOCSPs(ocsp, now)
    IN /\ last' = Returned("GetUnexpiredOCSPs", "", got.err, got.rrs)
       /\ UNCHANGED <<certs, ocsp, now, pc, args, ocspKey, call, driver, ret>>

UpdateOCSPCall(serial, body, expiry) ==
    LET res == UpdateOCSP(ocsp, serial, body, expiry)
    IN /\ ocsp' = res.rel
       /\ last' = Returned("UpdateOCSP",
                           [Serial |-> serial, Body |-> body, Expiry |-> expiry],
                           res.err, "")
       /\ UNCHANGED <<certs, now, pc, args, ocspKey, call, driver, ret>>

\* Caller p enters UpsertOCSP and runs its UPDATE: the call returns, or goes
\* on to InsertOCSP with the same values.
UpsertOCSPCall(p, serial, body, expiry) ==
    LET res == UpsertOCSP(ocsp, serial, body, expiry)
        rr  == [Serial |-> serial, Body |-> body, Expiry |-> expiry]
    IN /\ pc[p] = "idle"
       /\ ocsp' = res.rel
       /\ IF res.then = "InsertOCSP"
          THEN /\ pc' = [pc EXCEPT ![p] = "insert"]
               /\ args' = [args EXCEPT ![p] = rr]
               /\ last' = Returned("UpsertOCSP/UPDATE", [rr |-> rr, proc |-> p], nil, "")
          ELSE /\ last' = Returned("UpsertOCSP", [rr |-> rr, proc |-> p, via |-> "UPDATE"],
                                   res.err, "")
               /\ UNCHANGED <<pc, args>>
       /\ UNCHANGED <<certs, now, ocspKey, call, driver, ret>>

\* Caller p, whose UPDATE affected no row, runs InsertOCSP and returns its
\* result.
UpsertOCSPInsert(p) ==
    LET res == InsertOCSP(ocsp, args[p], ocspKey)
    IN /\ pc[p] = "insert"
       /\ RoomFor(ocsp, ocspKey)
       /\ ocsp' = res.rel
       /\ pc' = [pc EXCEPT ![p] = "idle"]
       /\ args' = [args EXCEPT ![p] = NoArgs]
       /\ last' = Returned("UpsertOCSP", [rr |-> args[p], proc |-> p, via |-> "InsertOCSP"],
                           res.err, "")
       /\ UNCHANGED <<certs, now, ocspKey, call, driver, ret>>

\* A database that holds no certificate or one good certificate.
InitCerts ==
    {EmptyBag,
     SetToBag({[Serial |-> "1", CALabel |-> "default", Status |-> "good", Reason |-> 0,
                Expiry |-> Time(MaxTime, "UTC"), RevokedAt |-> ZeroTime,
                PEM |-> "fake cert data"]})}

\* The migrated, empty ocsp_responses table, on an engine that keeps its
\* serial a key or on one that does not.
InitOCSPStore ==
    /\ certs \in InitCerts
    /\ ocsp = EmptyBag
    /\ now = 1
    /\ last = Returned("open", "", nil, "")
    /\ pc = [p \in Procs |-> "idle"]
    /\ args = [p \in Procs |-> NoArgs]
    /\ ocspKey \in BOOLEAN
    /\ call = NoCall
    /\ driver = "exact"
    /\ ret = [p \in Procs |-> NoReturn]

NextUpsert ==
    \/ \E p \in Procs, serial \in Serials, resp \in OCSPResponses :
           UpsertOCSPCall(p, serial, resp.Body, resp.Expiry)
    \/ \E p \in Procs : UpsertOCSPInsert(p)

NextOCSP ==
    \/ \E rr \in OCSPRecords : InsertOCSPCall(rr)
    \/ \E serial \in Serials : GetOCSPCall(serial)
    \/ GetUnexpiredOCSPsCall
    \/ \E serial \in Serials, resp \in OCSPResponses :
           UpdateOCSPCall(serial, resp.Body, resp.Expiry)
    \/ NextUpsert

\* The OCSP operations of the record store: single-statement calls, and two
\* callers whose UpsertOCSP calls interleave statement by statement.
SpecOCSP == InitOCSPStore /\ [][NextOCSP]_vars

\* Two callers of UpsertOCSP and no other writer.
SpecUpsert == InitOCSPStore /\ [][NextUpsert]_vars

----------------------------------------------------------------------------
(* Claims about the certificates relation, checked under Spec. *)

\* The record a GetCertificate after InsertCertificate(cr) must return, up
\* to revokedAt.
SameAsInserted(got, cr) ==
    /\ got.err = nil
    /\ got.cr.Serial = cr.Serial
    /\ got.cr.Status = cr.Status
    /\ got.cr.CALabel = cr.CALabel
    /\ got.cr.PEM = cr.PEM
    /\ got.cr.Expiry.t = cr.Expiry.t

\* C1 as stated: InsertCertificate(r) of a serial not yet stored succeeds,
\* and a following GetCertificate(r.serial) returns r's serial, status,
\* caLabel, PEM and expiry, with revokedAt unset, for every record r.
C1_Original ==
    [][(last'.op = "InsertCertificate" /\ Count(certs, last'.arg.Serial) = 0)
       => /\ last'.err = nil
          /\ \A got \in GetCertificate(certs', last'.arg.Serial) :
                 SameAsInserted(got, last'.arg) /\ IsZero(got.cr.RevokedAt)]_vars

\* C1 amended: InsertCertificate(r) of a serial not yet stored succeeds, and
\* a following GetCertificate(r.serial) returns r's serial, status, caLabel,
\* PEM and expiry, with the revokedAt of r: unset when r leaves it unset.
C1_InsertThenGet ==
    [][(last'.op = "InsertCertificate" /\ Count(certs, last'.arg.Serial) = 0)
       => /\ last'.err = nil
          /\ \A got \in GetCertificate(certs', last'.arg.Serial) :
                 /\ SameAsInserted(got, last'.arg)
                 /\ got.cr.RevokedAt.t = last'.arg.RevokedAt.t
                 /\ IsZero(last'.arg.RevokedAt) => IsZero(got.cr.RevokedAt)]_vars

\* A second record was inserted, in local time and without revokedAt.
C1_Witness ==
    /\ last.op = "InsertCertificate"
    /\ last.err = nil
    /\ last.arg.Expiry.loc = "Local"
    /\ IsZero(last.arg.RevokedAt)
    /\ Count(certs, last.arg.Serial) = 1
    /\ BagCardinality(certs) = 2

\* C2: RevokeCertificate(serial, reasonCode) on a stored serial succeeds and
\* leaves the record with status revoked, reason reasonCode and revokedAt the
\* database's current time, which is not the unset time.
C2_RevokeExisting ==
    [][(last'.op = "RevokeCertificate" /\ Count(certs, last'.arg.Serial) > 0)
       => /\ last'.err = nil
          /\ selectSQL(certs', last'.arg.Serial) # {}
          /\ \A r \in selectSQL(certs', last'.arg.Serial) :
                 /\ r.Status = "revoked"
                 /\ r.Reason = last'.arg.Reason
                 /\ r.RevokedAt.t = now
                 /\ ~IsZero(r.RevokedAt)]_vars

\* A good record was revoked for CACompromise after the clock moved on.
C2_Witness ==
    /\ last.op = "RevokeCertificate"
    /\ last.err = nil
    /\ last.arg.Reason = 2
    /\ now > 1
    /\ \E r \in selectSQL(certs, last.arg.Serial) : r.RevokedAt.t = now

\* C3: RevokeCertificate on a serial with no record fails with
\* record-not-found and leaves both relations as they were.
C3_RevokeMissing ==
    [][(last'.op = "RevokeCertificate" /\ Count(certs, last'.arg.Serial) = 0)
       => /\ last'.err = RecordNotFound
          /\ certs' = certs
          /\ ocsp' = ocsp]_vars

\* A revoke missed its serial while both relations held rows.
C3_Witness ==
    /\ last.op = "RevokeCertificate"
    /\ last.err = RecordNotFound
    /\ Count(certs, last.arg.Serial) = 0
    /\ certs # EmptyBag
    /\ ocsp # EmptyBag

\* The records of rel with the given serial and status.
WithStatus(rel, serial, status) ==
    BagCardinality([r \in {x \in BagToSet(rel) :
                              x.Serial = serial /\ x.Status = status} |-> rel[r]])

\* C4: no operation takes a record out of status revoked, and a record that
\* is not revoked changes its status only by becoming revoked; so a record
\* goes from good to revoked at most once.
C4_RevokedForGood ==
    [][\A serial \in Serials :
         /\ WithStatus(certs', serial, "revoked") >= WithStatus(certs, serial, "revoked")
         /\ \A status \in Statuses \ {"revoked"} :
                WithStatus(certs', serial, status) > WithStatus(certs, serial, status)
                => Count(certs', serial) > Count(certs, serial)]_vars

\* A record revoked by RevokeCertificate met a later insert of its serial as
\* a good record, and is still revoked.
C4_Witness ==
    /\ last.op = "InsertCertificate"
    /\ last.arg.Status = "good"
    /\ \E r \in selectSQL(certs, last.arg.Serial) :
           r.Status = "revoked" /\ r.Reason = 2

\* C5 as stated: in every reachable state every certificate record has
\* revokedAt unset if and only if its status is good.
C5_Original ==
    \A r \in BagToSet(certs) : IsZero(r.RevokedAt) <=> r.Status = "good"

\* C5 amended: every RevokeCertificate call, and every InsertCertificate call
\* whose record has revokedAt unset if and only if its status is good, keeps
\* 'revokedAt is unset iff status = good' true of every certificate record.
C5_RevokedAtIffRevoked ==
    [][(C5_Original
        /\ ~(last'.op = "InsertCertificate"
             /\ ~(IsZero(last'.arg.RevokedAt) <=> last'.arg.Status = "good")))
       => C5_Original']_vars

\* A revoked and a good record, each as the invariant wants it.
C5_Witness ==
    /\ C5_Original
    /\ last.op = "RevokeCertificate"
    /\ last.err = nil
    /\ \E r \in BagToSet(certs) : r.Status = "revoked" /\ ~IsZero(r.RevokedAt)
    /\ \E r \in BagToSet(certs) : r.Status = "good" /\ IsZero(r.RevokedAt)

\* C6: the certificates relation holds at most one record per serial, no
\* serial leaves it, and InsertCertificate of a stored serial neither adds a
\* record nor alters the stored one.
C6_SerialUnique ==
    [][/\ \A serial \in Serials :
              Count(certs', serial) <= 1 /\ Count(certs', serial) >= Count(certs, serial)
       /\ (last'.op = "InsertCertificate" /\ Count(certs, last'.arg.Serial) > 0)
              => certs' = certs /\ last'.err # nil]_vars

\* An insert of a stored serial, with other contents, was refused.
C6_Witness ==
    /\ last.op = "InsertCertificate"
    /\ last.err = Unknown
    /\ Count(certs, last.arg.Serial) = 1
    /\ \E r \in selectSQL(certs, last.arg.Serial) : r.Status # last.arg.Status

\* C7: GetUnexpiredCertificates returns exactly the records whose expiry is
\* later than the database clock, whatever their status.
C7_Unexpired ==
    last.op = "GetUnexpiredCertificates"
    => /\ last.err = nil
       /\ \A r \in BagToSet(certs) :
              /\ r.Expiry.t > now => CopiesIn(r, last.out) = CopiesIn(r, certs)
              /\ r.Expiry.t <= now => ~BagIn(r, last.out)
       /\ \A r \in BagToSet(last.out) : BagIn(r, certs)

\* A revoked record that has not expired was returned, and a record that
\* expires at this very instant was not.
C7_Witness ==
    /\ last.op = "GetUnexpiredCertificates"
    /\ \E r \in BagToSet(last.out) : r.Status = "revoked"
    /\ \E r \in BagToSet(certs) : r.Expiry.t = now /\ ~BagIn(r, last.out)

----------------------------------------------------------------------------
(* Claims about the ocsp_responses relation. *)

\* Every GetOCSP(serial) on rel returns the body and expiry of rr.
GetsBack(rel, rr) ==
    \A got \in GetOCSP(rel, rr.Serial) :
        /\ got.err = nil
        /\ got.rr.Serial = rr.Serial
        /\ got.rr.Body = rr.Body
        /\ got.rr.Expiry.t = rr.Expiry.t

\* C8 (SpecOCSP): an UpsertOCSP that no other writer of its serial cuts into
\* succeeds, whether the serial had no row (it inserts one) or one row (it
\* overwrites it); GetOCSP then returns the given body and expiry, and the
\* relation holds exactly one row for the serial.  A call that returns from
\* its UPDATE ran as a single statement; a call that returns from InsertOCSP
\* was not cut into when the serial still has no row as its InsertOCSP
\* starts; a call goes from its UPDATE on to InsertOCSP only when the serial
\* has no row, and has changed nothing by then.
C8_UpsertThenGet ==
    [][/\ (/\ last'.op = "UpsertOCSP"
           /\ \/ last'.arg.via = "UPDATE" /\ Count(ocsp, last'.arg.rr.Serial) <= 1
              \/ last'.arg.via = "InsertOCSP" /\ Count(ocsp, last'.arg.rr.Serial) = 0)
          => /\ last'.err = nil
             /\ Count(ocsp', last'.arg.rr.Serial) = 1
             /\ GetsBack(ocsp', last'.arg.rr)
       /\ last'.op = "UpsertOCSP/UPDATE"
          => /\ Count(ocsp, last'.arg.rr.Serial) = 0
             /\ ocsp' = ocsp
             /\ pc'[last'.arg.proc] = "insert"
             /\ args'[last'.arg.proc] = last'.arg.rr]_vars

\* An upsert overwrote the one row of its serial with the later response.
C8_Witness ==
    /\ last.op = "UpsertOCSP"
    /\ last.arg.via = "UPDATE"
    /\ last.err = nil
    /\ last.arg.rr.Body = "fake body revoked"
    /\ Count(ocsp, last.arg.rr.Serial) = 1
    /\ GetsBack(ocsp, last.arg.rr)

\* C9 (SpecOCSP): UpdateOCSP on a serial with no row fails with
\* record-not-found and leaves the relation as it was, without a row for the
\* serial; on a serial with a row it succeeds and the row holds the given
\* body and expiry.
C9_UpdateOCSP ==
    [][last'.op = "UpdateOCSP"
       => /\ Count(ocsp, last'.arg.Serial) = 0
              => /\ last'.err = RecordNotFound
                 /\ ocsp' = ocsp
                 /\ Count(ocsp', last'.arg.Serial) = 0
          /\ Count(ocsp, last'.arg.Serial) = 1
              => /\ last'.err = nil
                 /\ Count(ocsp', last'.arg.Serial) = 1
                 /\ GetsBack(ocsp', last'.arg)]_vars

\* An update missed its serial in a relation that holds another serial.
C9_Witness ==
    /\ last.op = "UpdateOCSP"
    /\ last.err = RecordNotFound
    /\ Count(ocsp, last.arg.Serial) = 0
    /\ ocsp # EmptyBag

\* C10 (SpecUpsert): two UpsertOCSP callers of one serial without a row can
\* both see their UPDATE affect no row and both go on to InsertOCSP.  The
\* InsertOCSP that then finds the other caller's row fails on the key and
\* changes nothing or, on an engine without the key, succeeds and leaves one
\* row more for the serial.
C10_UpsertRace ==
    [][(/\ last'.op = "UpsertOCSP"
        /\ last'.arg.via = "InsertOCSP"
        /\ Count(ocsp, last'.arg.rr.Serial) > 0)
       => IF ocspKey
          THEN last'.err = Unknown /\ ocsp' = ocsp
          ELSE /\ last'.err = nil
               /\ Count(ocsp', last'.arg.rr.Serial)
                      = Count(ocsp, last'.arg.rr.Serial) + 1]_vars

\* On an engine with the key, a caller's InsertOCSP failed: the other caller's
\* response is the row of the serial.
C10_Witness ==
    /\ ocspKey
    /\ last.op = "UpsertOCSP"
    /\ last.arg.via = "InsertOCSP"
    /\ last.err = Unknown
    /\ \E r \in selectOCSPSQL(ocsp, last.arg.rr.Serial) : r.Body # last.arg.rr.Body

\* On an engine without the key, both callers' InsertOCSP succeeded: the
\* serial has two rows.
C10_WitnessTwoRows ==
    /\ ~ocspKey
    /\ last.op = "UpsertOCSP"
    /\ last.arg.via = "InsertOCSP"
    /\ last.err = nil
    /\ Count(ocsp, last.arg.rr.Serial) = 2

----------------------------------------------------------------------------
(* The CRL assembler (package crl).                                        *)
(*                                                                         *)
(* A []byte or a Go string is a sequence of one-character strings.  A CRL  *)
(* is the content x509 CreateCRL signs: the revoked entries in order,      *)
(* thisUpdate and nextUpdate.  time.Now() reads the variable now.          *)

\* The bytes a serial list file is made of: two digits, the line feed, a
\* space, and a byte that is neither a digit nor white space.
Alphabet == {"1", "2", "\n", " ", "x"}
SerialLists == UNION {[1..n -> Alphabet] : n \in 0..MaxLen}

\* The PEM inputs: one that parses and one that does not.
IssuerFiles == {"ca.pem", "malformed"}
KeyFiles == {"ca-key.pem", "malformed"}
\* crypto/rand.Reader as CreateCRL finds it.
RandReaders == {"ok", "read error"}
\* The expiry durations a caller passes, in seconds: none, an hour, and one
\* that lies in the past.
ExpiryDurations == {0, 3600, -1}

\* The bytes of a stored serial.
Bytes(str) ==
    CASE str = "1" -> <<"1">>
      [] str = "2" -> <<"2">>
      [] str = "11" -> <<"1", "1">>
      [] str = "12" -> <<"1", "2">>
      [] str = "fake serial" -> <<"x", " ", "x">>

\* IsSpace without the space character.
IsSpaceControlOnly(c) == c \in {"\n", "\t", "\r"}

\* unicode.IsSpace, over the alphabet and the other ASCII white space.
IsSpace(c) == c \in {" ", "\n", "\t", "\r"}

\* strings.TrimSpace: the string without leading and trailing white space.
RECURSIVE TrimSpace(_)
TrimSpace(str) ==
    IF str = <<>> THEN <<>>
    ELSE IF IsSpace(Head(str)) THEN TrimSpace(Tail(str))
    ELSE IF IsSpace(str[Len(str)]) THEN TrimSpace(SubSeq(str, 1, Len(str) - 1))
    ELSE str

\* strings.Split(str, "\n"): the substrings between line feeds; a string
\* without a line feed, the empty one included, is its own only substring.
RECURSIVE Split(_)
Split(str) ==
    IF \A i \in 1..Len(str) : str[i] # "\n" THEN <<str>>
    ELSE LET i == CHOOSE k \in 1..Len(str) :
                      /\ str[k] = "\n"
                      /\ \A j \in 1..(k - 1) : str[j] # "\n"
         IN <<SubSeq(str, 1, i - 1)>> \o Split(SubSeq(str, i + 1, Len(str)))

Digits == {"0", "1", "2", "3", "4", "5", "6", "7", "8", "9"}
DigitValue(c) ==
    CASE c = "0" -> 0 [] c = "1" -> 1 [] c = "2" -> 2 [] c = "3" -> 3
      [] c = "4" -> 4 [] c = "5" -> 5 [] c = "6" -> 6 [] c = "7" -> 7
      [] c = "8" -> 8 [] c = "9" -> 9

\* The number a string of decimal digits denotes (0 for the empty string).
RECURSIVE Decimal(_)
Decimal(str) ==
    IF str = <<>> THEN 0
    ELSE Decimal(SubSeq(str, 1, Len(str) - 1)) * 10 + DigitValue(str[Len(str)])

\* The longest prefix of str made of decimal digits.
RECURSIVE DigitPrefix(_)
DigitPrefix(str) ==
    IF str = <<>> \/ Head(str) \notin Digits THEN <<>>
    ELSE <<Head(str)>> \o DigitPrefix(Tail(str))

\* big.Int.SetString(str, 10) with its ok result dropped: the values the
\* receiver may hold afterwards.  A string of one or more decimal digits sets
\* it to the number; on any other string the call fails and the receiver's
\* value is undefined: the scanner leaves the digits it read before it
\* stopped, or zero.  (The alphabet has no sign.)
SetString(str) ==
    IF str # <<>> /\ DigitPrefix(str) = str
    THEN {Decimal(str)}
    ELSE {0, Decimal(DigitPrefix(str))}

\* helpers.ParseCertificatePEM: the certificate, or the error on bytes that
\* are not a PEM certificate.
ParseCertificatePEM(certPEM) ==
    IF certPEM = "ca.pem"
    THEN [cert |-> "CA certificate", err |-> nil]
    ELSE [cert |-> nil, err |-> "DecodeFailed"]

\* helpers.ParsePrivateKeyPEM: the key, or the error on bytes that are not a
\* PEM private key.
ParsePrivateKeyPEM(keyPEM) ==
    IF keyPEM = "ca-key.pem"
    THEN [key |-> "CA key", err |-> nil]
    ELSE [key |-> nil, err |-> "ParseFailed"]

\* var oneWeek = time.Duration(604800) * time.Second, in seconds.
oneWeek == 604800

\* time.Time.Add, on a clock reading.
Add(t, d) == Time(t + d, "Local")

\* newExpiryTime without the default for a zero duration.
newExpiryTimeNoDefault(expiryDuration, t) == Add(t, expiryDuration)

\* The first statements of NewCRLFromFile and of NewCRLFromDB: the expiry
\* time of the CRL, from the duration and the clock reading t.
newExpiryTime(expiryDuration, t) ==
    IF expiryDuration = 0 THEN Add(t, oneWeek) ELSE Add(t, expiryDuration)

\* No CRL bytes.
NoCRL == [RevokedCertificates |-> "<nil>"]

\* func CreateGenericCRL: x509 Certificate.CreateCRL over the list, signed at
\* clock reading t; CreateCRL writes every time in UTC.  Its error, and no
\* bytes, when the random source fails.
CreateGenericCRL(certList, key, issuingCert, expiryTime, t, rand) ==
    IF rand = "ok"
    THEN [crl |-> [RevokedCertificates |->
                       [i \in 1..Len(certList) |->
                           [SerialNumber   |-> certList[i].SerialNumber,
                            RevocationTime |-> UTC(certList[i].RevocationTime)]],
                   ThisUpdate |-> UTC(Time(t, "Local")),
                   NextUpdate |-> UTC(expiryTime)],
          err |-> nil]
    ELSE [crl |-> NoCRL, err |-> rand]

\* The loop of NewCRLFromFile without the test that skips blank lines.
RECURSIVE revokedCertsFromFileNoSkip(_, _)
revokedCertsFromFileNoSkip(individualCerts, t) ==
    IF individualCerts = <<>> THEN {<<>>}
    ELSE {<<[SerialNumber   |-> tempBigInt,
             RevocationTime |-> Time(t, "Local")]>> \o r :
              tempBigInt \in SetString(Head(individualCerts)),
              r \in revokedCertsFromFileNoSkip(Tail(individualCerts), t)}

\* The loop of NewCRLFromFile skipping, besides blank lines, every line that
\* is not a string of decimal digits.
RECURSIVE revokedCertsFromFileRejecting(_, _)
revokedCertsFromFileRejecting(individualCerts, t) ==
    IF individualCerts = <<>> THEN {<<>>}
    ELSE LET value == Head(individualCerts)
             rest  == revokedCertsFromFileRejecting(Tail(individualCerts), t)
         IN IF value = <<>> \/ DigitPrefix(value) # value THEN rest
            ELSE {<<[SerialNumber   |-> Decimal(value),
                     RevocationTime |-> Time(t, "Local")]>> \o r : r \in rest}

\* The loop of NewCRLFromFile skipping, besides blank lines, every line that
\* comes again further down.
RECURSIVE revokedCertsFromFileDistinct(_, _)
revokedCertsFromFileDistinct(individualCerts, t) ==
    IF individualCerts = <<>> THEN {<<>>}
    ELSE LET value == Head(individualCerts)
             rest  == revokedCertsFromFileDistinct(Tail(individualCerts), t)
             again == \E i \in 2..Len(individualCerts) : individualCerts[i] = value
         IN IF Len(TrimSpace(value)) = 0 \/ again THEN rest
            ELSE {<<[SerialNumber   |-> tempBigInt,
                     RevocationTime |-> Time(t, "Local")]>> \o r :
                      tempBigInt \in SetString(value), r \in rest}

\* The loop of NewCRLFromFile over the lines: the lists revokedCerts may be
\* when it ends.  A line that is empty once trimmed is skipped; any other
\* line is parsed untrimmed and appended, with the clock reading t.
RECURSIVE revokedCertsFromFile(_, _)
revokedCertsFromFile(individualCerts, t) ==
    IF individualCerts = <<>> THEN {<<>>}
    ELSE LET value == Head(individualCerts)
             rest  == revokedCertsFromFile(Tail(individualCerts), t)
         IN IF Len(TrimSpace(value)) = 0 THEN rest
            ELSE {<<[SerialNumber   |-> tempBigInt,
                     RevocationTime |-> Time(t, "Local")]>> \o r :
                      tempBigInt \in SetString(value), r \in rest}

\* func NewCRLFromFile, called at clock reading t: the (CRL, error) pairs it
\* may return.
NewCRLFromFile(serialList, issuerFile, keyFile, expiryDuration, t, rand) ==
    LET issuerCert == ParseCertificatePEM(issuerFile)
        key        == ParsePrivateKeyPEM(keyFile)
    IN IF issuerCert.err # nil THEN {[crl |-> NoCRL, err |-> issuerCert.err]}
       ELSE IF key.err # nil THEN {[crl |-> NoCRL, err |-> key.err]}
       ELSE {CreateGenericCRL(revokedCerts, key.key, issuerCert.cert,
                              newExpiryTime(expiryDuration, t), t, rand) :
                 revokedCerts \in revokedCertsFromFile(Split(serialList), t)}

\* certdb.GetRevokedCertificates: the records with status 'revoked', in any
\* order the engine yields them.
GetRevokedCertificates(rel) ==
    LET revoked == {r \in BagToSet(rel) : r.Status = "revoked"}
        n       == SumOver(revoked, rel)
    IN {crs \in [1..n -> revoked] :
            \A r \in revoked : Cardinality({i \in 1..n : crs[i] = r}) = rel[r]}

\* The loop of NewCRLFromDB starting at the second record.
RECURSIVE revokedCertsFromDBSkippingFirst(_)
revokedCertsFromDBSkippingFirst(dbRevoked) ==
    IF Len(dbRevoked) <= 1 THEN {<<>>}
    ELSE LET cr == dbRevoked[2]
         IN {<<[SerialNumber   |-> tempBigInt,
                RevocationTime |-> cr.RevokedAt]>> \o r :
                 tempBigInt \in SetString(Bytes(cr.Serial)),
                 r \in revokedCertsFromDBSkippingFirst(Tail(dbRevoked))}

\* The loop of NewCRLFromDB over the records: the lists revokedCerts may be
\* when it ends.
RECURSIVE revokedCertsFromDB(_)
revokedCertsFromDB(dbRevoked) ==
    IF dbRevoked = <<>> THEN {<<>>}
    ELSE LET cr == Head(dbRevoked)
         IN {<<[SerialNumber   |-> tempBigInt,
                RevocationTime |-> cr.RevokedAt]>> \o r :
                 tempBigInt \in SetString(Bytes(cr.Serial)),
                 r \in revokedCertsFromDB(Tail(dbRevoked))}

\* NewCRLFromFile is called and returns.  A process generates one CRL.
NewCRLFromFileCall(serialList, issuerFile, keyFile, expiryDuration, rand) ==
    /\ call.pc = "idle"
    /\ \E res \in NewCRLFromFile(serialList, issuerFile, keyFile,
                                 expiryDuration, now, rand) :
           last' = Returned("NewCRLFromFile",
                            [serialList     |-> serialList,
                             issuerFile     |-> issuerFile,
                             keyFile        |-> keyFile,
                             expiryDuration |-> expiryDuration,
                             t              |-> now,
                             rand           |-> rand],
                            res.err, res.crl)
    /\ call' = [pc |-> "done"]
    /\ UNCHANGED <<certs, ocsp, now, pc, args, ocspKey, driver, ret>>

\* NewCRLFromDB is called and runs up to its query: it returns the error of
\* a PEM input that does not parse, or holds the records the query yields.
NewCRLFromDBCall(issuerFile, keyFile, expiryDuration, rand) ==
    LET issuerCert == ParseCertificatePEM(issuerFile)
        key        == ParsePrivateKeyPEM(keyFile)
        in         == [issuerFile     |-> issuerFile,
                       keyFile        |-> keyFile,
                       expiryDuration |-> expiryDuration,
                       t              |-> now,
                       rand           |-> rand]
    IN /\ call.pc = "idle"
       /\ IF issuerCert.err # nil \/ key.err # nil
          THEN /\ last' = Returned("NewCRLFromDB", in,
                                   IF issuerCert.err # nil THEN issuerCert.err
                                   ELSE key.err,
                                   NoCRL)
               /\ call' = [pc |-> "done"]
          ELSE \E dbRevoked \in GetRevokedCertificates(certs) :
                  /\ last' = Returned("NewCRLFromDB/GetRevokedCertificates",
                                      in, nil, dbRevoked)
                  /\ call' = [pc            |-> "sign",
                              in            |-> in,
                              key           |-> key.key,
                              issuerCert    |-> issuerCert.cert,
                              newExpiryTime |-> newExpiryTime(expiryDuration, now),
                              rand          |-> rand,
                              dbRevoked     |-> dbRevoked]
       /\ UNCHANGED <<certs, ocsp, now, pc, args, ocspKey, driver, ret>>

\* NewCRLFromDB goes on from its query: it builds the list, signs and
\* returns.
NewCRLFromDBSign ==
    /\ call.pc = "sign"
    /\ \E revokedCerts \in revokedCertsFromDB(call.dbRevoked) :
          LET res == CreateGenericCRL(revokedCerts, call.key, call.issuerCert,
                                      call.newExpiryTime, now, call.rand)
          IN last' = Returned("NewCRLFromDB", call.in, res.err, res.crl)
    /\ call' = [pc |-> "done", dbRevoked |-> call.dbRevoked]
    /\ UNCHANGED <<certs, ocsp, now, pc, args, ocspKey, driver, ret>>

\* A process about to generate a CRL, and a database without certificates.
InitCRL ==
    /\ certs = EmptyBag
    /\ ocsp = EmptyBag
    /\ now = 1
    /\ last = Returned("open", "", nil, "")
    /\ pc = [p \in Procs |-> "idle"]
    /\ args = [p \in Procs |-> NoArgs]
    /\ ocspKey = TRUE
    /\ call = NoCall
    /\ driver = "exact"
    /\ ret = [p \in Procs |-> NoReturn]

NextCRL ==
    \/ /\ call.pc = "idle"
       /\ \E serialList \in SerialLists, issuerFile \in IssuerFiles,
             keyFile \in KeyFiles, expiryDuration \in ExpiryDurations,
             rand \in RandReaders :
              NewCRLFromFileCall(serialList, issuerFile, keyFile,
                                 expiryDuration, rand)
    \/ \E issuerFile \in IssuerFiles, keyFile \in KeyFiles,
          expiryDuration \in ExpiryDurations, rand \in RandReaders :
           NewCRLFromDBCall(issuerFile, keyFile, expiryDuration, rand)
    \/ NewCRLFromDBSign
    \/ Tick

\* The two constructions of a CRL, from a serial list and from a database
\* without certificates, as the clock runs.
SpecCRL == InitCRL /\ [][NextCRL]_vars

\* Stored certificate records for the CRL built from a database: good and
\* revoked, expired and unexpired at the first clock reading, and a revoked
\* one with the serial the certdb tests store.
CRLRows ==
    {[Serial |-> "1", CALabel |-> "default", Status |-> "good", Reason |-> 0,
      Expiry |-> Time(MaxTime, "UTC"), RevokedAt |-> ZeroTime,
      PEM |-> "fake cert data"],
     [Serial |-> "2", CALabel |-> "default", Status |-> "revoked", Reason |-> 0,
      Expiry |-> Time(1, "UTC"), RevokedAt |-> Time(1, "UTC"),
      PEM |-> "fake cert data"],
     [Serial |-> "11", CALabel |-> "default", Status |-> "good", Reason |-> 0,
      Expiry |-> Time(1, "UTC"), RevokedAt |-> ZeroTime,
      PEM |-> "fake cert data"],
     [Serial |-> "12", CALabel |-> "default", Status |-> "revoked", Reason |-> 2,
      Expiry |-> Time(MaxTime, "UTC"), RevokedAt |-> Time(MaxTime, "UTC"),
      PEM |-> "fake cert data"],
     [Serial |-> "fake serial", CALabel |-> "default", Status |-> "revoked",
      Reason |-> 0, Expiry |-> Time(MaxTime, "UTC"),
      RevokedAt |-> Time(1, "UTC"), PEM |-> "fake cert data"]}

\* A database holding any of the records, and a process about to generate a
\* CRL from it.
InitCRLFromDB ==
    /\ certs \in {SetToBag(rows) : rows \in SUBSET CRLRows}
    /\ ocsp = EmptyBag
    /\ now = 1
    /\ last = Returned("open", "", nil, "")
    /\ pc = [p \in Procs |-> "idle"]
    /\ args = [p \in Procs |-> NoArgs]
    /\ ocspKey = TRUE
    /\ call = NoCall
    /\ driver = "exact"
    /\ ret = [p \in Procs |-> NoReturn]

NextCRLFromDB ==
    \/ \E issuerFile \in IssuerFiles, keyFile \in KeyFiles,
          expiryDuration \in ExpiryDurations, rand \in RandReaders :
           NewCRLFromDBCall(issuerFile, keyFile, expiryDuration, rand)
    \/ NewCRLFromDBSign
    \/ Tick

\* NewCRLFromDB over a database no one writes to, as the clock runs.
SpecCRLFromDB == InitCRLFromDB /\ [][NextCRLFromDB]_vars

----------------------------------------------------------------------------
(* Claims about the CRL built from the database. *)

DigitChar(d) ==
    CASE d = 0 -> "0" [] d = 1 -> "1" [] d = 2 -> "2" [] d = 3 -> "3"
      [] d = 4 -> "4" [] d = 5 -> "5" [] d = 6 -> "6" [] d = 7 -> "7"
      [] d = 8 -> "8" [] d = 9 -> "9"

\* The decimal numeral of n (big.Int.String).
RECURSIVE Numeral(_)
Numeral(n) ==
    IF n < 10 THEN <<DigitChar(n)>>
    ELSE Numeral(n \div 10) \o <<DigitChar(n % 10)>>

\* An entry of a CRL carries the serial and the revocation instant of the
\* record cr.
EntryOf(entry, cr) ==
    /\ Numeral(entry.SerialNumber) = Bytes(cr.Serial)
    /\ entry.RevocationTime.t = cr.RevokedAt.t

\* C11 (SpecCRLFromDB): the CRL NewCRLFromDB returns has exactly one entry
\* per record whose stored status is revoked, each with that record's serial
\* and stored revokedAt, and no entry for any other record.
C11_RevokedExactly ==
    (last.op = "NewCRLFromDB" /\ last.err = nil)
    => LET entries == last.out.RevokedCertificates
           revoked == {r \in BagToSet(certs) : r.Status = "revoked"}
       IN /\ Len(entries) = SumOver(revoked, certs)
          /\ \A r \in revoked : \E i \in 1..Len(entries) : EntryOf(entries[i], r)

\* The part of C11 that holds: one entry per revoked record and no other,
\* with the stored revokedAt; with the record's serial when that serial is a
\* decimal numeral.
C11_ParsableSerials ==
    (last.op = "NewCRLFromDB" /\ last.err = nil)
    => LET entries == last.out.RevokedCertificates
           revoked == {r \in BagToSet(certs) : r.Status = "revoked"}
       IN /\ Len(entries) = SumOver(revoked, certs)
          /\ \A r \in revoked : \E i \in 1..Len(entries) :
                /\ entries[i].RevocationTime.t = r.RevokedAt.t
                /\ DigitPrefix(Bytes(r.Serial)) = Bytes(r.Serial)
                       => EntryOf(entries[i], r)
          /\ \A i \in 1..Len(entries) : \E r \in revoked :
                /\ entries[i].RevocationTime.t = r.RevokedAt.t
                /\ entries[i].SerialNumber \in SetString(Bytes(r.Serial))

\* A CRL from a database whose revoked records all have numeral serials,
\* one of them expired, beside a good record that has not expired.
C11_WitnessParsable ==
    /\ last.op = "NewCRLFromDB"
    /\ last.err = nil
    /\ Len(last.out.RevokedCertificates) = 2
    /\ \A r \in BagToSet(certs) : r.Serial # "fake serial"
    /\ \E r \in BagToSet(certs) : r.Status = "good" /\ now < r.Expiry.t
    /\ \E r \in BagToSet(certs) : r.Status = "revoked" /\ r.Expiry.t <= now

----------------------------------------------------------------------------
(* Claims about the CRL built from a serial list. *)

\* A line of white space only, the empty line included.
Blank(line) == \A i \in 1..Len(line) : IsSpace(line[i])

\* A line that is a decimal numeral and nothing else.
IsNumeral(line) == line # <<>> /\ \A i \in 1..Len(line) : line[i] \in Digits

\* The lines of a serial list that are not blank, in order.
NonBlankLines(serialList) == SelectSeq(Split(serialList), LAMBDA line : ~Blank(line))

\* C12 (SpecCRL): for a serial list whose lines are decimal numerals and
\* blank or white-space-only lines, NewCRLFromFile returns a CRL with exactly
\* one entry per numeral line, each entry with the serial of its line, in the
\* order of the lines.
C12_OnePerSerial ==
    (/\ last.op = "NewCRLFromFile"
     /\ last.err = nil
     /\ \A i \in 1..Len(NonBlankLines(last.arg.serialList)) :
            IsNumeral(NonBlankLines(last.arg.serialList)[i]))
    => LET lines   == NonBlankLines(last.arg.serialList)
           entries == last.out.RevokedCertificates
       IN /\ Len(entries) = Len(lines)
          /\ \A i \in 1..Len(lines) : Numeral(entries[i].SerialNumber) = lines[i]

\* A CRL from two distinct serials with an empty line between them.
C12_Witness ==
    /\ last.op = "NewCRLFromFile"
    /\ last.err = nil
    /\ last.arg.serialList = <<"1", "\n", "\n", "2">>
    /\ Len(last.out.RevokedCertificates) = 2
    /\ last.out.RevokedCertificates[1].SerialNumber = 1
    /\ last.out.RevokedCertificates[2].SerialNumber = 2

\* C13 (SpecCRL): on a serial list of white space only, the empty list
\* included, NewCRLFromFile with an issuer certificate and key that parse
\* succeeds and returns a CRL without entries.
C13_NoRevocations ==
    (/\ last.op = "NewCRLFromFile"
     /\ last.arg.issuerFile = "ca.pem"
     /\ last.arg.keyFile = "ca-key.pem"
     /\ last.arg.rand = "ok"
     /\ \A i \in 1..Len(last.arg.serialList) :
            last.arg.serialList[i] \in {" ", "\n"})
    => /\ last.err = nil
       /\ last.out.RevokedCertificates = <<>>

\* The list of TestNewCRLFromFileWithoutRevocations: a line feed, a space
\* and a line feed.
C13_Witness ==
    /\ last.op = "NewCRLFromFile"
    /\ last.arg.serialList = <<"\n", " ", "\n">>
    /\ last.err = nil
    /\ last.out.RevokedCertificates = <<>>

\* The empty serial list.
C13_WitnessEmpty ==
    /\ last.op = "NewCRLFromFile"
    /\ last.arg.serialList = <<>>
    /\ last.err = nil
    /\ last.out.RevokedCertificates = <<>>

\* C14 (SpecCRL): the CRL NewCRLFromFile or NewCRLFromDB returns has
\* nextUpdate 604800 seconds after the clock reading of the call when the
\* duration is zero, and the duration after it otherwise.
C14_NextUpdate ==
    (last.op \in {"NewCRLFromFile", "NewCRLFromDB"} /\ last.err = nil)
    => last.out.NextUpdate.t
           = last.arg.t + (IF last.arg.expiryDuration = 0 THEN 604800
                           ELSE last.arg.expiryDuration)

\* A CRL from the database with the default of a week, signed after the
\* clock moved on.
C14_Witness ==
    /\ last.op = "NewCRLFromDB"
    /\ last.err = nil
    /\ last.arg.expiryDuration = 0
    /\ last.arg.t < now
    /\ last.out.NextUpdate.t = last.arg.t + 604800

\* A CRL from a serial list with a duration of an hour.
C14_WitnessFile ==
    /\ last.op = "NewCRLFromFile"
    /\ last.err = nil
    /\ last.arg.expiryDuration = 3600
    /\ last.out.NextUpdate.t = last.arg.t + 3600

\* The call was given PEM inputs that parse and a random source that works.
Signable(arg) ==
    /\ arg.issuerFile = "ca.pem"
    /\ arg.keyFile = "ca-key.pem"
    /\ arg.rand = "ok"

C21_WitnessPrefix ==
    /\ last.op = "NewCRLFromFile"
    /\ last.err = nil
    /\ last.arg.serialList = <<"2", "x">>
    /\ Len(last.out.RevokedCertificates) = 1
    /\ last.out.RevokedCertificates[1].SerialNumber = 2

\* C25 (SpecCRL): the CRL NewCRLFromFile returns has as many entries as the
\* serial list has lines that are not blank, repeated and unparsable lines
\* counted, and the entry at each position is of the line at that position:
\* a numeral line's entry has the numeral's number.
C25_OnePerLine ==
    (last.op = "NewCRLFromFile" /\ last.err = nil)
    => LET lines   == NonBlankLines(last.arg.serialList)
           entries == last.out.RevokedCertificates
       IN /\ Len(entries) = Len(lines)
          /\ \A i \in 1..Len(lines) :
                IsNumeral(lines[i]) => Numeral(entries[i].SerialNumber) = lines[i]

\* The same serial on two lines: two entries.
C25_Witness ==
    /\ last.op = "NewCRLFromFile"
    /\ last.err = nil
    /\ last.arg.serialList = <<"1", "\n", "1">>
    /\ Len(last.out.RevokedCertificates) = 2
    /\ last.out.RevokedCertificates[1] = last.out.RevokedCertificates[2]

\* An unparsable line, a blank line and a numeral: two entries, the
\* numeral's second.
C25_WitnessOrder ==
    /\ last.op = "NewCRLFromFile"
    /\ last.err = nil
    /\ last.arg.serialList = <<"x", "\n", "\n", "2">>
    /\ Len(last.out.RevokedCertificates) = 2
    /\ last.out.RevokedCertificates[2].SerialNumber = 2

----------------------------------------------------------------------------
(* The gencrl command (package cli/gencrl).                                *)
(*                                                                         *)
(* The command runs against a file system fs, a function from file names   *)
(* to what reading the file gives: bytes, or an error.  What it did is the *)
(* list io of the steps it took and the list stdout of what it printed.    *)

\* func NewCRLFromDB, called at clock reading t on a database no one writes
\* to: the (CRL, error) pairs it may return.
NewCRLFromDB(rel, issuerFile, keyFile, expiryDuration, t, rand) ==
    LET issuerCert == ParseCertificatePEM(issuerFile)
        key        == ParsePrivateKeyPEM(keyFile)
    IN IF issuerCert.err # nil THEN {[crl |-> NoCRL, err |-> issuerCert.err]}
       ELSE IF key.err # nil THEN {[crl |-> NoCRL, err |-> key.err]}
       ELSE {CreateGenericCRL(revokedCerts, key.key, issuerCert.cert,
                              newExpiryTime(expiryDuration, t), t, rand) :
                 revokedCerts \in UNION {revokedCertsFromDB(dbRevoked) :
                                     dbRevoked \in GetRevokedCertificates(rel)}}

\* What reading a file gives: its bytes, or an error.
Readable(bytes) == [bytes |-> bytes, err |-> nil]
Unreadable(bytes) == [bytes |-> bytes, err |-> "open: no such file or directory"]

\* The file systems the command runs against: what reading each of the
\* files a command line names gives.
FileSystems ==
    [ca         : {Readable(b) : b \in IssuerFiles} \cup {Unreadable("")},
     key        : {Readable(b) : b \in KeyFiles} \cup {Unreadable("")},
     serialList : {Readable(<<"1", "\n", "2">>), Unreadable(<<>>)},
     dbConfig   : {Readable("sqlite3"), Unreadable("")}]

\* The command lines: the positional arguments and the flags.
Arguments == {<<>>, <<"serialList">>, <<"serialList", "ca.crt">>}
Configs ==
    [DBConfigFile : {"", "db-config.json"},
     CAFile       : {"", "ca.crt"},
     CAKeyFile    : {"", "ca.key"},
     CRLExpiry    : {0, 3600}]

\* cli.ReadStdin: the bytes of the named file, or the error of reading it.
ReadStdin(fs, filename) ==
    CASE filename = "ca.crt" -> fs.ca
      [] filename = "ca.key" -> fs.key
      [] filename = "serialList" -> fs.serialList
      [] filename = "db-config.json" -> fs.dbConfig

\* cli.PopFirstArgument: the first argument, or an error when there is none.
PopFirstArgument(argv) ==
    IF Len(argv) < 1
    THEN [first |-> "", err |-> "not enough arguments are supplied"]
    ELSE [first |-> Head(argv), err |-> nil]

\* certdb.DBFromConfig: the database the configuration file names, or the
\* error of reading the file.
DBFromConfig(fs, rel, path) ==
    IF ReadStdin(fs, path).err # nil
    THEN [db |-> EmptyBag, err |-> ReadStdin(fs, path).err]
    ELSE [db |-> rel, err |-> nil]

\* A step the command took.
Step(op, arg) == [op |-> op, arg |-> arg]

\* The checks of gencrlMain on its arguments and flags, without the one for
\* more than one argument.
usageErrorFirstArgumentOnly(argv, c) ==
    IF c.DBConfigFile # "" /\ Len(argv) > 0
    THEN "Only provide either DB config file (with -db-config) or serial list"
    ELSE IF c.DBConfigFile = "" /\ Len(argv) = 0
    THEN "Need to provide either DB config file (with -db-config) or serial list"
    ELSE IF c.CAFile = "" THEN "Need a CA certificate (provide one with -ca)"
    ELSE IF c.CAKeyFile = "" THEN "Need a CA key (provide one with -ca-key)"
    ELSE nil

\* The checks gencrlMain opens with: the error it returns, or nil.
usageError(argv, c) ==
    IF c.DBConfigFile # "" /\ Len(argv) > 0
    THEN "Only provide either DB config file (with -db-config) or serial list"
    ELSE IF c.DBConfigFile = "" /\ Len(argv) = 0
    THEN "Need to provide either DB config file (with -db-config) or serial list"
    ELSE IF c.DBConfigFile = "" /\ Len(argv) > 1
    THEN "Provided too many arguments, only expected one"
    ELSE IF c.CAFile = "" THEN "Need a CA certificate (provide one with -ca)"
    ELSE IF c.CAKeyFile = "" THEN "Need a CA key (provide one with -ca-key)"
    ELSE nil

\* What a run of gencrlMain comes to: its error, its steps and its output.
Ran(err, io, stdout) == [err |-> err, io |-> io, stdout |-> stdout]

\* The end of gencrlMain with the error check on req dropped: whatever the
\* construction returned is printed.
printCRLUnchecked(res, io) ==
    Ran(res.err, io \o <<Step("PrintCRL", res.crl)>>, <<res.crl>>)

\* The end of gencrlMain: the error of the construction is returned, or the
\* CRL is handed to cli.PrintCRL, which writes it to standard output.
printCRL(res, io) ==
    IF res.err # nil THEN Ran(res.err, io, <<>>)
    ELSE Ran(nil, io \o <<Step("PrintCRL", res.crl)>>, <<res.crl>>)

\* func gencrlMain, run at clock reading t against the file system fs and
\* the database rel: the runs it may come to.
gencrlMain(argv, c, fs, rel, t, rand) ==
    IF usageError(argv, c) # nil THEN {Ran(usageError(argv, c), <<>>, <<>>)}
    ELSE
    LET certFile == ReadStdin(fs, c.CAFile)
        io1      == <<Step("ReadStdin", c.CAFile)>>
        keyFile  == ReadStdin(fs, c.CAKeyFile)
        io2      == io1 \o <<Step("ReadStdin", c.CAKeyFile)>>
    IN IF certFile.err # nil THEN {Ran(certFile.err, io1, <<>>)}
       ELSE IF keyFile.err # nil THEN {Ran(keyFile.err, io2, <<>>)}
       ELSE IF c.DBConfigFile = ""
       THEN LET serialList == PopFirstArgument(argv)
                serialFile == ReadStdin(fs, serialList.first)
                io3        == io2 \o <<Step("ReadStdin", serialList.first)>>
                io4        == io3 \o <<Step("NewCRLFromFile", serialList.first)>>
            IN IF serialList.err # nil THEN {Ran(serialList.err, io2, <<>>)}
               ELSE IF serialFile.err # nil THEN {Ran(serialFile.err, io3, <<>>)}
               ELSE {printCRL(res, io4) :
                        res \in NewCRLFromFile(serialFile.bytes, certFile.bytes,
                                               keyFile.bytes, c.CRLExpiry, t, rand)}
       ELSE LET db  == DBFromConfig(fs, rel, c.DBConfigFile)
                io3 == io2 \o <<Step("DBFromConfig", c.DBConfigFile)>>
                io4 == io3 \o <<Step("NewCRLFromDB", c.DBConfigFile)>>
            IN IF db.err # nil THEN {Ran(db.err, io3, <<>>)}
               ELSE {printCRL(res, io4) :
                        res \in NewCRLFromDB(db.db, certFile.bytes, keyFile.bytes,
                                             c.CRLExpiry, t, rand)}

\* The command runs once.
gencrlMainCall(argv, c, fs, rand) ==
    /\ call.pc = "idle"
    /\ \E ran \in gencrlMain(argv, c, fs, certs, now, rand) :
           last' = Returned("gencrlMain",
                            [args |-> argv, c |-> c, fs |-> fs, rand |-> rand],
                            ran.err,
                            [io |-> ran.io, stdout |-> ran.stdout])
    /\ call' = [pc |-> "done"]
    /\ UNCHANGED <<certs, ocsp, now, pc, args, ocspKey, driver, ret>>

\* The command about to run, and the database its configuration names.
InitCLI ==
    /\ certs \in {SetToBag(rows) : rows \in SUBSET {r \in CRLRows : r.Serial \in Serials}}
    /\ ocsp = EmptyBag
    /\ now = 1
    /\ last = Returned("open", "", nil, "")
    /\ pc = [p \in Procs |-> "idle"]
    /\ args = [p \in Procs |-> NoArgs]
    /\ ocspKey = TRUE
    /\ call = NoCall
    /\ driver = "exact"
    /\ ret = [p \in Procs |-> NoReturn]

NextCLI ==
    /\ call.pc = "idle"
    /\ \E a \in Arguments, c \in Configs, fs \in FileSystems, rand \in RandReaders :
           gencrlMainCall(a, c, fs, rand)

\* One run of the gencrl command.
SpecCLI == InitCLI /\ [][NextCLI]_vars

----------------------------------------------------------------------------
(* Claims about the gencrl command. *)

\* C15 (SpecCLI): gencrlMain returns a usage error, having read no file,
\* opened no database and generated no CRL, when it is given both a database
\* configuration and a serial list argument, neither, more than one
\* argument, no CA certificate or no CA key; and on no other command line.
C15_UsageErrors ==
    last.op = "gencrlMain"
    => LET argv == last.arg.args
           c    == last.arg.c
           misuse == \/ c.DBConfigFile # "" /\ Len(argv) > 0
                     \/ c.DBConfigFile = "" /\ Len(argv) = 0
                     \/ Len(argv) > 1
                     \/ c.CAFile = ""
                     \/ c.CAKeyFile = ""
           usage == last.err \in
                      {"Only provide either DB config file (with -db-config) or serial list",
                       "Need to provide either DB config file (with -db-config) or serial list",
                       "Provided too many arguments, only expected one",
                       "Need a CA certificate (provide one with -ca)",
                       "Need a CA key (provide one with -ca-key)"}
       IN /\ misuse <=> usage
          /\ misuse => last.out.io = <<>> /\ last.out.stdout = <<>>

\* Two arguments and no database configuration, with the CA certificate and
\* key named and every file readable: the command returns the usage error
\* having done nothing.
C15_Witness ==
    /\ last.op = "gencrlMain"
    /\ last.arg.args = <<"serialList", "ca.crt">>
    /\ last.arg.c.DBConfigFile = ""
    /\ last.arg.c.CAFile # ""
    /\ last.arg.c.CAKeyFile # ""
    /\ last.arg.fs.ca.err = nil
    /\ last.arg.fs.key.err = nil
    /\ last.arg.fs.serialList.err = nil
    /\ last.err = "Provided too many arguments, only expected one"
    /\ last.out.io = <<>>

\* C16 (SpecCLI): gencrlMain prints at most one thing, a whole CRL, and only
\* when it returns without error after every file read, the opening of the
\* database and the construction succeeded; a run that returns an error
\* printed nothing; and no step of a run is taken twice.
C16_NoPartialCRL ==
    last.op = "gencrlMain"
    => LET c      == last.arg.c
           fs     == last.arg.fs
           stdout == last.out.stdout
           io     == last.out.io
       IN /\ last.err # nil => stdout = <<>>
          /\ stdout # <<>>
             => /\ last.err = nil
                /\ Len(stdout) = 1
                /\ stdout[1] # NoCRL
                /\ io[Len(io)] = [op |-> "PrintCRL", arg |-> stdout[1]]
                /\ fs.ca = Readable("ca.pem")
                /\ fs.key = Readable("ca-key.pem")
                /\ last.arg.rand = "ok"
                /\ IF c.DBConfigFile = "" THEN fs.serialList.err = nil
                   ELSE fs.dbConfig.err = nil
          /\ last.err = nil => Len(stdout) = 1
          /\ \A i, j \in 1..Len(io) : io[i] = io[j] => i = j

\* The signing fails after every file was read and the database opened: the
\* command returns the error and has printed nothing.
C16_Witness ==
    /\ last.op = "gencrlMain"
    /\ last.arg.c.DBConfigFile # ""
    /\ last.arg.rand # "ok"
    /\ last.err = last.arg.rand
    /\ Len(last.out.io) = 4
    /\ last.out.io[4].op = "NewCRLFromDB"
    /\ last.out.stdout = <<>>

\* The command printed the CRL of a serial list.
C16_WitnessPrinted ==
    /\ last.op = "gencrlMain"
    /\ last.err = nil
    /\ last.arg.c.DBConfigFile = ""
    /\ Len(last.out.stdout) = 1
    /\ Len(last.out.stdout[1].RevokedCertificates) = 2

----------------------------------------------------------------------------
(* The record store as a whole: both relations and every call that writes. *)

\* The records a signer passes to InsertCertificate: good, not revoked.
IssuedCertificates ==
    {cr \in CertificateRecords :
        /\ cr.Status = "good"
        /\ IsZero(cr.RevokedAt)
        /\ cr.Expiry = Time(MaxTime, "UTC")}

NextStore ==
    \/ \E cr \in IssuedCertificates : InsertCertificateCall(cr)
    \/ \E serial \in Serials, reasonCode \in ReasonCodes :
           RevokeCertificateCall(serial, reasonCode)
    \/ \E rr \in OCSPRecords : InsertOCSPCall(rr)
    \/ \E serial \in Serials, resp \in OCSPResponses :
           UpdateOCSPCall(serial, resp.Body, resp.Expiry)
    \/ NextUpsert

\* The writers of the certificates relation and of the ocsp_responses
\* relation, called in any order.
SpecStore == Init /\ [][NextStore]_vars

----------------------------------------------------------------------------
(* Claims about the two relations together. *)

\* C17 (SpecStore): InsertCertificate and RevokeCertificate leave the
\* ocsp_responses relation as it is; InsertOCSP, UpdateOCSP and UpsertOCSP
\* leave the certificates relation as it is, and succeed for a serial that
\* has no certificate record as they do for any other.
C17_Independent ==
    [][/\ last'.op \in {"InsertCertificate", "RevokeCertificate"} => ocsp' = ocsp
       /\ last'.op \in {"InsertOCSP", "UpdateOCSP", "UpsertOCSP", "UpsertOCSP/UPDATE"}
              => certs' = certs
       /\ (last'.op = "InsertOCSP" /\ Count(ocsp, last'.arg.Serial) = 0)
              => last'.err = nil /\ Count(ocsp', last'.arg.Serial) = 1
       /\ (last'.op = "UpdateOCSP" /\ Count(ocsp, last'.arg.Serial) = 1)
              => last'.err = nil
       /\ (last'.op = "UpsertOCSP" /\ Count(ocsp, last'.arg.rr.Serial)
                                        = (IF last'.arg.via = "UPDATE" THEN 1 ELSE 0))
              => last'.err = nil /\ Count(ocsp', last'.arg.rr.Serial) = 1]_vars

\* A certificate has just been revoked, and the cached OCSP response of its
\* serial is still the one written before.
C17_Witness ==
    /\ last.op = "RevokeCertificate"
    /\ last.err = nil
    /\ \E r \in BagToSet(certs) : r.Serial = last.arg.Serial /\ r.Status = "revoked"
    /\ \E r \in BagToSet(ocsp) : r.Serial = last.arg.Serial /\ r.Body = "fake body"

\* An OCSP response has just been inserted for a serial without a
\* certificate record.
C17_WitnessNoCertificate ==
    /\ last.op = "InsertOCSP"
    /\ last.err = nil
    /\ Count(certs, last.arg.Serial) = 0
    /\ Count(ocsp, last.arg.Serial) = 1

----------------------------------------------------------------------------
(* The CRL assembler beside the writers of the certificates relation. *)

NextAssembler ==
    \/ \E cr \in IssuedCertificates : InsertCertificateCall(cr)
    \/ \E serial \in Serials, reasonCode \in ReasonCodes :
           RevokeCertificateCall(serial, reasonCode)
    \/ Tick
    \/ \E issuerFile \in IssuerFiles, keyFile \in KeyFiles, rand \in RandReaders :
           NewCRLFromDBCall(issuerFile, keyFile, 0, rand)
    \/ NewCRLFromDBSign
    \/ /\ call.pc = "idle"
       /\ \E serialList \in {<<>>, <<"1", "\n", "2">>} :
              NewCRLFromFileCall(serialList, "ca.pem", "ca-key.pem", 0, "ok")

\* A process generates a CRL while certificates are inserted and revoked
\* and the clock runs.
SpecAssembler == Init /\ [][NextAssembler]_vars

----------------------------------------------------------------------------
(* Claims about what the calls leave alone. *)

\* The rows of rel with another serial.
OtherThan(rel, serial) ==
    [r \in {x \in BagToSet(rel) : x.Serial # serial} |-> rel[r]]

\* C18 (Spec): a RevokeCertificate call that succeeds leaves the serial,
\* caLabel, expiry and pem of the record of the serial as they were, and
\* every record of another serial as it was.
C18_RevokeFrame ==
    [][(last'.op = "RevokeCertificate" /\ last'.err = nil)
       => /\ OtherThan(certs', last'.arg.Serial) = OtherThan(certs, last'.arg.Serial)
          /\ Count(certs', last'.arg.Serial) = 1
          /\ \A r \in selectSQL(certs, last'.arg.Serial) :
               \A q \in selectSQL(certs', last'.arg.Serial) :
                  /\ q.Serial = r.Serial
                  /\ q.CALabel = r.CALabel
                  /\ q.Expiry = r.Expiry
                  /\ q.PEM = r.PEM]_vars

\* A certificate has just been revoked beside a record of another serial
\* that is not revoked.
C18_Witness ==
    /\ last.op = "RevokeCertificate"
    /\ last.err = nil
    /\ \E r \in BagToSet(certs) : r.Serial = last.arg.Serial /\ r.Status = "revoked"
    /\ \E r \in BagToSet(certs) : r.Serial # last.arg.Serial /\ r.Status = "good"

\* The serials of the certificates relation.
SerialsOf(rel) == {r.Serial : r \in BagToSet(rel)}

\* C19 (SpecAssembler): no step of a record store call or of the CRL
\* assembler removes a serial from the certificates relation, and the steps
\* of NewCRLFromDB and NewCRLFromFile leave both relations as they are.
C19_NeverDeleted ==
    [][/\ SerialsOf(certs) \subseteq SerialsOf(certs')
       /\ last'.op \in {"NewCRLFromDB/GetRevokedCertificates", "NewCRLFromDB",
                        "NewCRLFromFile"}
              => certs' = certs /\ ocsp' = ocsp]_vars

\* NewCRLFromDB has returned a CRL from a database of two certificates, one
\* of them revoked, and a cached OCSP response.
C19_Witness ==
    /\ last.op = "NewCRLFromDB"
    /\ last.err = nil
    /\ Cardinality(SerialsOf(certs)) = 2
    /\ Len(last.out.RevokedCertificates) = 1
    /\ ocsp # EmptyBag

\* C20 (SpecAssembler): the query of NewCRLFromDB yields exactly the records
\* revoked when it runs, and the CRL returned has the entries of those
\* records and no other: every certificate revoked before the clock reading
\* of the query has an entry, whatever was revoked while the CRL was built,
\* and every entry is of a certificate revoked no later than that reading.
C20_RevokedBeforeRead ==
    [][/\ last'.op = "NewCRLFromDB/GetRevokedCertificates"
          => /\ \A r \in BagToSet(certs) :
                   r.Status = "revoked"
                      <=> \E i \in 1..Len(call'.dbRevoked) : call'.dbRevoked[i] = r
             /\ Len(call'.dbRevoked)
                   = Cardinality({r \in BagToSet(certs) : r.Status = "revoked"})
       /\ (last'.op = "NewCRLFromDB" /\ last'.err = nil)
          => LET entries == last'.out.RevokedCertificates
             IN /\ Len(entries) = Len(call.dbRevoked)
                /\ \A i \in 1..Len(entries) : EntryOf(entries[i], call.dbRevoked[i])
                /\ \A r \in BagToSet(certs') :
                      (r.Status = "revoked" /\ r.RevokedAt.t < last'.arg.t)
                         => \E i \in 1..Len(entries) :
                               Numeral(entries[i].SerialNumber) = Bytes(r.Serial)
                /\ \A i \in 1..Len(entries) :
                      /\ entries[i].RevocationTime.t <= last'.arg.t
                      /\ \E r \in BagToSet(certs') :
                            /\ Numeral(entries[i].SerialNumber) = Bytes(r.Serial)
                            /\ r.Status = "revoked"]_vars

\* NewCRLFromDB has returned a CRL with the certificate revoked before its
\* query and without the one revoked after it.
C20_Witness ==
    /\ last.op = "NewCRLFromDB"
    /\ last.err = nil
    /\ Len(last.out.RevokedCertificates) = 1
    /\ \E r \in BagToSet(certs) :
          /\ r.Status = "revoked"
          /\ r.RevokedAt.t < last.arg.t
          /\ Numeral(last.out.RevokedCertificates[1].SerialNumber) = Bytes(r.Serial)
    /\ \E r \in BagToSet(certs) :
          /\ r.Status = "revoked"
          /\ r.RevokedAt.t >= last.arg.t
          /\ Numeral(last.out.RevokedCertificates[1].SerialNumber) # Bytes(r.Serial)

----------------------------------------------------------------------------
(* The inserts on engines whose INSERT does not report one affected row. *)

\* What an engine and its driver may report for an INSERT that violates no
\* key: the row written and counted ("exact"), no row written and none
\* counted ("no-op": a rule or trigger of the database swallows the row), the
\* row written and two counted ("two rows": a trigger's row is counted too),
\* the row written and Result.RowsAffected not supported ("no count": the
\* count is 0 and comes with an error).
Drivers == {"exact", "no-op", "two rows", "no count"}

InitDriver ==
    /\ certs = EmptyBag
    /\ ocsp = EmptyBag
    /\ now = 1
    /\ last = Returned("open", "", nil, "")
    /\ pc = [p \in Procs |-> "idle"]
    /\ args = [p \in Procs |-> NoArgs]
    /\ ocspKey = TRUE
    /\ call = NoCall
    /\ driver \in Drivers
    /\ ret = [p \in Procs |-> NoReturn]

NextDriver ==
    \/ \E cr \in IssuedCertificates : InsertCertificateCall(cr)
    \/ \E rr \in OCSPRecords : InsertOCSPCall(rr)
    \/ \E serial \in Serials : GetCertificateCall(serial)
    \/ \E serial \in Serials : GetOCSPCall(serial)

SpecDriver == InitDriver /\ [][NextDriver]_vars

\* C22 (SpecDriver): InsertCertificate and InsertOCSP return the store error
\* Unknown when the INSERT fails with a driver error, InsertionFailed when
\* it reports no affected row, Unknown when it reports a count other than
\* zero and one, and they return no error only when it reports exactly one
\* affected row.
C22_SelfVerifying ==
    last.op \in {"InsertCertificate", "InsertOCSP"}
       => LET res == last.out
          IN /\ res.err # nil => last.err = Unknown
             /\ (res.err = nil /\ res.n = 0) => last.err = InsertionFailed
             /\ (res.err = nil /\ res.n \notin {0, 1}) => last.err = Unknown
             /\ last.err = nil => (res.err = nil /\ res.n = 1)

\* InsertCertificate has returned InsertionFailed for an INSERT that ran
\* without error, reported no affected row and wrote none.
C22_Witness ==
    /\ last.op = "InsertCertificate"
    /\ last.out.err = nil
    /\ last.out.n = 0
    /\ last.err = InsertionFailed
    /\ Count(certs, last.arg.Serial) = 0

\* InsertOCSP has returned Unknown for an INSERT that reported two affected
\* rows.
C22_WitnessTwoRows ==
    /\ last.op = "InsertOCSP"
    /\ last.out.err = nil
    /\ last.out.n = 2
    /\ last.err = Unknown

\* InsertOCSP has returned Unknown for the driver's error on a stored serial.
C22_WitnessDriverError ==
    /\ last.op = "InsertOCSP"
    /\ last.out.err # nil
    /\ last.err = Unknown
    /\ Count(ocsp, last.arg.Serial) = 1

\* InsertCertificate has returned no error for an INSERT that reported one
\* affected row.
C22_WitnessInserted ==
    /\ last.op = "InsertCertificate"
    /\ last.out.n = 1
    /\ last.err = nil
    /\ Count(certs, last.arg.Serial) = 1

----------------------------------------------------------------------------
(* Revocation of a certificate that is already revoked. *)

\* A database that holds serial "1" revoked at clock reading 1 with reason
\* unspecified, as InsertCertificate and RevokeCertificate have left it.
InitRevoked ==
    /\ certs = SetToBag({[Serial |-> "1", CALabel |-> "default",
                          Status |-> "revoked", Reason |-> 0,
                          Expiry |-> Time(MaxTime, "UTC"),
                          RevokedAt |-> CURRENT_TIMESTAMP(1),
                          PEM |-> "fake cert data"]})
    /\ ocsp = EmptyBag
    /\ now = 1
    /\ last = Returned("open", "", nil, "")
    /\ pc = [p \in Procs |-> "idle"]
    /\ args = [p \in Procs |-> NoArgs]
    /\ ocspKey = TRUE
    /\ call = NoCall
    /\ driver = "exact"
    /\ ret = [p \in Procs |-> NoReturn]

NextRevoked ==
    \/ \E cr \in IssuedCertificates : InsertCertificateCall(cr)
    \/ \E serial \in Serials : GetCertificateCall(serial)
    \/ \E serial \in Serials, reasonCode \in ReasonCodes :
           RevokeCertificateCall(serial, reasonCode)
    \/ Tick

SpecRevoked == InitRevoked /\ [][NextRevoked]_vars

\* C23 (SpecRevoked): RevokeCertificate on a serial whose record is already
\* revoked returns no error and leaves the record revoked, with the reason
\* code of this call and the database time of this call as its revocation
\* time, whatever reason and time it held before.
C23_RevokeAgain ==
    [][(/\ last'.op = "RevokeCertificate"
        /\ \E r \in selectSQL(certs, last'.arg.Serial) : r.Status = "revoked")
       => /\ last'.err = nil
          /\ Count(certs', last'.arg.Serial) = 1
          /\ \A r \in selectSQL(certs', last'.arg.Serial) :
                 /\ r.Status = "revoked"
                 /\ r.Reason = last'.arg.Reason
                 /\ r.RevokedAt = CURRENT_TIMESTAMP(now)]_vars

\* Serial "1", revoked at clock reading 1 with reason unspecified since the
\* start, was revoked again at reading 3 for CACompromise: the record holds
\* the later time and reason.
C23_Witness ==
    /\ last.op = "RevokeCertificate"
    /\ last.arg = [Serial |-> "1", Reason |-> 2]
    /\ last.err = nil
    /\ now = 3
    /\ \E r \in selectSQL(certs, "1") :
          /\ r.Status = "revoked"
          /\ r.Reason = 2
          /\ r.RevokedAt = CURRENT_TIMESTAMP(3)

----------------------------------------------------------------------------
(* Two concurrent UpsertOCSP calls on one serial. *)

\* The serial the callers have named so far (none: any serial may be named).
Contended ==
    {args[p].Serial : p \in {q \in Procs : args[q] # NoArgs}}
       \cup {ret[p].rr.Serial : p \in {q \in Procs : ret[q] # NoReturn}}

\* Caller p makes its one call of UpsertOCSP, on the contended serial, and
\* runs its UPDATE.
ConcurrentUpsertOCSPCall(p, serial, body, expiry) ==
    /\ ret[p] = NoReturn
    /\ args[p] = NoArgs
    /\ Contended \subseteq {serial}
    /\ LET res == UpsertOCSP(ocsp, serial, body, expiry)
           rr  == [Serial |-> serial, Body |-> body, Expiry |-> expiry]
       IN /\ pc[p] = "idle"
          /\ ocsp' = res.rel
          /\ IF res.then = "InsertOCSP"
             THEN /\ pc' = [pc EXCEPT ![p] = "insert"]
                  /\ args' = [args EXCEPT ![p] = rr]
                  /\ last' = Returned("UpsertOCSP/UPDATE", [rr |-> rr, proc |-> p],
                                      nil, "")
                  /\ UNCHANGED ret
             ELSE /\ last' = Returned("UpsertOCSP",
                                      [rr |-> rr, proc |-> p, via |-> "UPDATE"],
                                      res.err, "")
                  /\ ret' = [ret EXCEPT ![p] = [rr |-> rr, err |-> res.err]]
                  /\ UNCHANGED <<pc, args>>
    /\ UNCHANGED <<certs, now, ocspKey, call, driver>>

\* Caller p, whose UPDATE affected no row, runs InsertOCSP and returns its
\* result.
ConcurrentUpsertOCSPInsert(p) ==
    LET res == InsertOCSP(ocsp, args[p], ocspKey)
    IN /\ pc[p] = "insert"
       /\ ocsp' = res.rel
       /\ pc' = [pc EXCEPT ![p] = "idle"]
       /\ args' = [args EXCEPT ![p] = NoArgs]
       /\ last' = Returned("UpsertOCSP",
                           [rr |-> args[p], proc |-> p, via |-> "InsertOCSP"],
                           res.err, "")
       /\ ret' = [ret EXCEPT ![p] = [rr |-> args[p], err |-> res.err]]
       /\ UNCHANGED <<certs, now, ocspKey, call, driver>>

\* The ocsp_responses table with serial a key, empty or holding a response
\* of serial "1".
InitConcurrent ==
    /\ certs = EmptyBag
    /\ ocsp \in InitOCSP
    /\ now = 1
    /\ last = Returned("open", "", nil, "")
    /\ pc = [p \in Procs |-> "idle"]
    /\ args = [p \in Procs |-> NoArgs]
    /\ ocspKey = TRUE
    /\ call = NoCall
    /\ driver = "exact"
    /\ ret = [p \in Procs |-> NoReturn]

NextConcurrent ==
    \/ \E p \in Procs, serial \in Serials, resp \in OCSPResponses :
           ConcurrentUpsertOCSPCall(p, serial, resp.Body, resp.Expiry)
    \/ \E p \in Procs : ConcurrentUpsertOCSPInsert(p)
    \/ \E serial \in Serials : GetOCSPCall(serial)

SpecConcurrent == InitConcurrent /\ [][NextConcurrent]_vars

\* Both callers have returned.
BothReturned == \A p \in Procs : ret[p] # NoReturn

\* The row UpsertOCSP stores for the record rr.
Stored(rr) == [Serial |-> rr.Serial, Body |-> rr.Body, Expiry |-> UTC(rr.Expiry)]

\* C24 (SpecConcurrent): on an engine that keeps ocsp_responses.serial a
\* key, when two UpsertOCSP calls on one serial have both returned, however
\* their statements interleaved and whether or not the serial had a row, the
\* serial has exactly one row, one of the calls at least returned no error,
\* and the row holds the body and expiry of a call that returned no error.
C24_OneRowOfAWinner ==
    BothReturned
       => /\ \A p \in Procs : Count(ocsp, ret[p].rr.Serial) = 1
          /\ \E p \in Procs : ret[p].err = nil
          /\ \E p \in Procs :
                /\ ret[p].err = nil
                /\ selectOCSPSQL(ocsp, ret[p].rr.Serial) = {Stored(ret[p].rr)}

\* Both callers saw their UPDATE affect no row; the InsertOCSP of one
\* succeeded and that of the other failed on the key: the row is the
\* winner's, which differs from the loser's.
C24_Witness ==
    /\ BothReturned
    /\ \E p, q \in Procs :
          /\ ret[p].err = nil
          /\ ret[q].err = Unknown
          /\ ret[p].rr.Body # ret[q].rr.Body
          /\ selectOCSPSQL(ocsp, ret[p].rr.Serial) = {Stored(ret[p].rr)}

\* Both callers updated the stored row of serial "1", with different
\* responses, and both returned no error.
C24_WitnessStoredRow ==
    /\ BothReturned
    /\ \A p \in Procs : ret[p].err = nil /\ last.arg.via = "UPDATE"
    /\ ret[1].rr.Body # ret[2].rr.Body

====
